---- MODULE Spec2Model ----
(***************************************************************************)
(* A model of data/criteo/CriteoDataLoader.py: the two-pass pipeline that  *)
(* counts feature tokens, derives the frequency-filtered vocabulary,      *)
(* encodes every well-formed line into a uint32 row and stores the rows   *)
(* in an LMDB store under big-endian keys, and the reader that opens the  *)
(* store and looks rows up by index.                                       *)
(***************************************************************************)
EXTENDS Integers, Sequences, FiniteSets, TLC

(***************************************************************************)
(* Bounds of the model.                                                    *)
(***************************************************************************)
\* total number of data lines over all dataset files of the file system
MaxLines == 3
\* min_threshold is drawn from 1..MaxThreshold
MaxThreshold == 2
\* buffer_size of __yield_buffer is drawn from 1..MaxBufferSize
MaxBufferSize == 2
\* number of times the constructor CriteoDataset(...) is called in a run
MaxRuns == 2

(***************************************************************************)
(* Program constants.                                                      *)
(***************************************************************************)
NUM_FEATS == 39
NUM_INT_FEATS == 13

(***************************************************************************)
(* Text lines.  A line is a sequence of lexemes: a value, the delimiter    *)
(* "," or the line terminator "\n".                                        *)
(***************************************************************************)
RECURSIVE RStripNewline(_)
\* line.rstrip('\n')
RStripNewline(line) ==
    IF line # <<>> /\ line[Len(line)] = "\n"
    THEN RStripNewline(SubSeq(line, 1, Len(line) - 1))
    ELSE line

RECURSIVE Concat(_)
\* the string the lexemes of one field spell
Concat(lexemes) == IF lexemes = <<>> THEN "" ELSE Head(lexemes) \o Concat(Tail(lexemes))

\* str.split(','): one more field than there are delimiters, each field the
\* text between two delimiters (or an end of the line)
Split(s) ==
    LET IsComma(k) == s[k] = ","
        commas == SelectSeq([k \in 1..Len(s) |-> k], IsComma)
        cut == <<0>> \o commas \o <<Len(s) + 1>>
    IN  [j \in 1..(Len(commas) + 1) |-> Concat(SubSeq(s, cut[j] + 1, cut[j + 1] - 1))]

\* values = line.rstrip('\n').split(',')
Values(line) == Split(RStripNewline(line))

\* the test `len(values) != self.NUM_FEATS + 1: continue`, negated
WellFormed(line) == Len(Values(line)) = NUM_FEATS + 1

\* float(val) / int(val) of a one-digit numeral
ParseNumber(val) == CHOOSE n \in 0..9 : ToString(n) = val

\* least v with int(math.log(v) ** 2) >= k, for k = 1..6:
\* ceil(e ^ sqrt(k)) = 3, 5, 6, 8, 10, 12
LogSqThreshold == <<3, 5, 6, 8, 10, 12>>

\* int(math.log(v) ** 2) for 3 <= v < 15
IntLogSq(v) == Cardinality({k \in 1..Len(LogSqThreshold) : LogSqThreshold[k] <= v})

convert_numeric_feature(val) ==
    IF val = "" THEN "NULL"
    ELSE LET v == ParseNumber(val)
         IN  IF v > 2 THEN ToString(IntLogSq(v))
             ELSE ToString(v - 2) \o ".0"

\* the token of field i (1..NUM_FEATS) of a split line; values[i] of the
\* 0-based Python list is values[i + 1] here
Token(i, values) ==
    IF i <= NUM_INT_FEATS THEN convert_numeric_feature(values[i + 1])
    ELSE values[i + 1]

(***************************************************************************)
(* VocabularyBuilder: CriteoDataset.__get_feat_mapper.                     *)
(***************************************************************************)
\* a dict with no key
EmptyDict == [k \in {} |-> 0]

\* d[t] += 1 on a defaultdict(int)
Increment(d, t) ==
    [k \in DOMAIN d \cup {t} |->
        IF k = t THEN (IF t \in DOMAIN d THEN d[t] ELSE 0) + 1 ELSE d[k]]

\* the body of the counting loop for one well-formed line: feat_cnts[i][token] += 1
\* for every field i; feat_cnts is a defaultdict, so a field gets its key here
CountLine(feat_cnts, values) ==
    [i \in 1..NUM_FEATS |->
        Increment(IF i \in DOMAIN feat_cnts THEN feat_cnts[i] ELSE EmptyDict,
                  Token(i, values))]

RECURSIVE CountLines(_, _)
\* the counting loop over the lines that follow the header
CountLines(lines, feat_cnts) ==
    IF lines = <<>> THEN feat_cnts
    ELSE CountLines(Tail(lines),
                    IF WellFormed(Head(lines))
                    THEN CountLine(feat_cnts, Values(Head(lines)))
                    ELSE feat_cnts)

\* f.readline(): the lines left after the header (none if the file is empty)
AfterHeader(file) == IF file = <<>> THEN <<>> ELSE Tail(file)

\* the iteration order of a Python set of str depends on the string hashes,
\* which are fixed by the hash seed of the interpreter process
HashOrder(seed) ==
    LET base == <<"NULL", "-2.0", "-1.0", "0.0", "0", "1", "2", "3", "a", "b">>
    IN  IF seed = 0 THEN base
        ELSE [k \in 1..Len(base) |-> base[Len(base) + 1 - k]]

\* list(kept): the elements of the set in its iteration order
Enumerate(kept, seed) ==
    LET IsKept(t) == t \in kept
    IN  SelectSeq(HashOrder(seed), IsKept)

\* the filter with > for >=
KeptAbove(cnt, min_threshold) == {t \in DOMAIN cnt : cnt[t] > min_threshold}

\* {feat for feat, c in cnt.items() if c >= self.min_threshold}
Kept(cnt, min_threshold) == {t \in DOMAIN cnt : cnt[t] >= min_threshold}

\* {feat: idx for idx, feat in enumerate(kept)}
Codes(kept, seed) ==
    LET order == Enumerate(kept, seed)
    IN  [t \in kept |-> (CHOOSE k \in 1..Len(order) : order[k] = t) - 1]

\* __get_feat_mapper(path) on the content of the file at path
get_feat_mapper(file, min_threshold, seed) ==
    LET feat_cnts == CountLines(AfterHeader(file), EmptyDict)
        feat_mapper == [i \in DOMAIN feat_cnts |->
                          Codes(Kept(feat_cnts[i], min_threshold), seed)]
        defaults == [i \in DOMAIN feat_mapper |-> Cardinality(DOMAIN feat_mapper[i])]
    IN  [feat_mapper |-> feat_mapper, defaults |-> defaults]

(***************************************************************************)
(* RecordEncoder: the body of the loop of CriteoDataset.__yield_buffer.    *)
(***************************************************************************)
\* feat_mapper[i] or defaults[i] raises KeyError
EncodeRaises(feat_mapper, defaults) ==
    \E i \in 1..NUM_FEATS : i \notin DOMAIN feat_mapper \/ i \notin DOMAIN defaults

\* dict.get(key, default)
DictGet(d, key, default) == IF key \in DOMAIN d THEN d[key] ELSE default

\* np_array of one well-formed line: slot 0 the label, slot i the code of field i
\* (np_array[k] of the 0-based array is element k + 1 here)
Encode(values, feat_mapper, defaults) ==
    [k \in 1..(NUM_FEATS + 1) |->
        IF k = 1 THEN ParseNumber(values[1])
        ELSE DictGet(feat_mapper[k - 1], Token(k - 1, values), defaults[k - 1])]

(***************************************************************************)
(* Serialisation: ndarray.tobytes / np.frombuffer of uint32 (little        *)
(* endian) and struct.pack('>I', index) (big endian).                      *)
(***************************************************************************)
\* tobytes in the byte order of the keys, which frombuffer does not read
ToBytesBigEndian(arr) ==
    [k \in 1..(4 * Len(arr)) |->
        LET n == arr[((k - 1) \div 4) + 1]
            b == (k - 1) % 4
        IN  IF b = 3 THEN n % 256
            ELSE IF b = 2 THEN (n \div 256) % 256
            ELSE IF b = 1 THEN (n \div 65536) % 256
            ELSE (n \div 16777216) % 256]

ToBytes(arr) ==
    [k \in 1..(4 * Len(arr)) |->
        LET n == arr[((k - 1) \div 4) + 1]
            b == (k - 1) % 4
        IN  IF b = 0 THEN n % 256
            ELSE IF b = 1 THEN (n \div 256) % 256
            ELSE IF b = 2 THEN (n \div 65536) % 256
            ELSE (n \div 16777216) % 256]

FromBuffer(bytes) ==
    [j \in 1..(Len(bytes) \div 4) |->
        bytes[4 * j - 3] + 256 * bytes[4 * j - 2]
            + 65536 * bytes[4 * j - 1] + 16777216 * bytes[4 * j]]

\* struct.pack('>I', index) raises struct.error for a negative index
PackRaises(index) == index < 0

Pack(index) ==
    <<(index \div 16777216) % 256, (index \div 65536) % 256,
      (index \div 256) % 256, index % 256>>

\* b'field_dims'
FieldDimsKey == <<102, 105, 101, 108, 100, 95, 100, 105, 109, 115>>

\* field_dims = np.zeros(NUM_FEATS); field_dims[i - 1] = len(fm) + 1 for the
\* fields feat_mapper has (element i here is field_dims[i - 1])
FieldDims(feat_mapper) ==
    [i \in 1..NUM_FEATS |->
        IF i \in DOMAIN feat_mapper THEN Cardinality(DOMAIN feat_mapper[i]) + 1 ELSE 0]

(***************************************************************************)
(* The LMDB store: a map from byte-string keys to byte-string values.      *)
(***************************************************************************)
EmptyStore == [k \in {} |-> <<>>]

\* txn.put(key, value)
Put(store, key, value) ==
    [k \in DOMAIN store \cup {key} |-> IF k = key THEN value ELSE store[k]]

\* txn.put after the loop over the buffer: only its last pair is written
PutLastOnly(store, buffer) ==
    IF buffer = <<>> THEN store
    ELSE Put(store, buffer[Len(buffer)][1], buffer[Len(buffer)][2])

RECURSIVE PutAll(_, _)
\* for key, value in buffer: txn.put(key, value), in one write transaction
PutAll(store, buffer) ==
    IF buffer = <<>> THEN store
    ELSE PutAll(Put(store, buffer[1][1], buffer[1][2]), Tail(buffer))

\* txn.stat()['entries']
Entries(store) == Cardinality(DOMAIN store)

\* the length with the metadata entry counted as a record
LengthCountsFieldDims(store) == Entries(store)

\* self.length = txn.stat()['entries'] - 1
Length(store) == Entries(store) - 1

(***************************************************************************)
(* CacheWriter: the generator CriteoDataset.__yield_buffer, run from the   *)
(* line at position pos until its next yield.  The result is the buffer    *)
(* yielded, the generator's position and item_idx, whether the generator   *)
(* is exhausted (the final `yield buffer`), and whether encoding raised.   *)
(***************************************************************************)
RECURSIVE yield_buffer(_, _, _, _, _, _, _)
yield_buffer(lines, pos, item_idx, buffer, buffer_size, feat_mapper, defaults) ==
    IF pos >= Len(lines)
    THEN [buffer |-> buffer, pos |-> pos, item_idx |-> item_idx,
          exhausted |-> TRUE, raised |-> FALSE]
    ELSE IF ~WellFormed(lines[pos + 1])
    THEN yield_buffer(lines, pos + 1, item_idx, buffer, buffer_size, feat_mapper, defaults)
    ELSE IF EncodeRaises(feat_mapper, defaults)
    THEN [buffer |-> buffer, pos |-> pos, item_idx |-> item_idx,
          exhausted |-> FALSE, raised |-> TRUE]
    ELSE LET np_array == Encode(Values(lines[pos + 1]), feat_mapper, defaults)
             appended == Append(buffer, <<Pack(item_idx), ToBytes(np_array)>>)
         IN  IF (item_idx + 1) % buffer_size = 0
             THEN [buffer |-> appended, pos |-> pos + 1, item_idx |-> item_idx + 1,
                   exhausted |-> FALSE, raised |-> FALSE]
             ELSE yield_buffer(lines, pos + 1, item_idx + 1, appended, buffer_size,
                             feat_mapper, defaults)

(***************************************************************************)
(* CacheReader: CriteoDataset.__getitem__ on a store.                      *)
(***************************************************************************)
\* struct.pack raises for a negative index; txn.get returns None for a key
\* the store lacks and np.frombuffer(None) raises
GetItemRaises(store, index) == PackRaises(index) \/ Pack(index) \notin DOMAIN store

\* np_array = frombuffer(txn.get(pack(index))); return np_array[1:], np_array[0]
GetItem(store, index) ==
    LET np_array == FromBuffer(store[Pack(index)])
    IN  <<Tail(np_array), np_array[1]>>

(***************************************************************************)
(* Paths.                                                                  *)
(***************************************************************************)
\* self.prefix
Prefix(is_test) == IF is_test THEN "criteoTest/" ELSE "criteo/"

\* the path __init__ and __yield_buffer assign to dataset_path / path
HardCodedPath == "data/criteo/train_df_GDCN.csv"

\* temp_path of __build_cache
TempPath(is_test) == "data/" \o Prefix(is_test) \o "train_df_GDCN.csv"

\* the dataset files of the file system
DataPaths == {TempPath(FALSE), TempPath(TRUE)}

\* cache_path as the loaders pass it: 'data/' + prefix + ".criteoTest" / ".criteoTrain"
CachePath(is_test) ==
    "data/" \o Prefix(is_test) \o (IF is_test THEN ".criteoTest" ELSE ".criteoTrain")

CachePaths == {CachePath(FALSE), CachePath(TRUE)}

(***************************************************************************)
(* The inputs: the lines a dataset file may hold.                          *)
(***************************************************************************)
\* the text line of a list of field values (an empty value is the empty lexeme)
Join(fields) ==
    [k \in 1..(2 * Len(fields)) |->
        IF k % 2 = 1 THEN fields[(k + 1) \div 2]
        ELSE IF k = 2 * Len(fields) THEN "\n" ELSE ","]

\* label 1, every numeric field 3, every categorical field a
FieldsA ==
    [k \in 1..(NUM_FEATS + 1) |->
        IF k = 1 THEN "1" ELSE IF k - 1 <= NUM_INT_FEATS THEN "3" ELSE "a"]

\* label 0, numeric field 1 is 4 and the others empty, categorical fields b but the last, a
FieldsB ==
    [k \in 1..(NUM_FEATS + 1) |->
        IF k = 1 THEN "0" ELSE IF k = 2 THEN "4"
        ELSE IF k - 1 <= NUM_INT_FEATS THEN ""
        ELSE IF k = NUM_FEATS + 1 THEN "a" ELSE "b"]

\* two well-formed lines and a truncated one (its last field is missing)
LineUniverse == {Join(FieldsA), Join(FieldsB), Join(SubSeq(FieldsA, 1, NUM_FEATS))}

HeaderLine == <<"header", "\n">>

\* the sequences of at most n lines
Corpora(n) == UNION {[1..k -> LineUniverse] : k \in 0..n}

\* the dataset files: a header and data lines, MaxLines data lines in all
FileSystems ==
    {[p \in DataPaths |-> <<HeaderLine>> \o c[p]] :
        c \in {d \in [DataPaths -> Corpora(MaxLines)] :
                  Len(d[TempPath(FALSE)]) + Len(d[TempPath(TRUE)]) <= MaxLines}}

Seeds == {0, 1}

Indices == (0 - 1)..MaxLines

(***************************************************************************)
(* State.  An optional value is <<>> (None, no file, no directory) or      *)
(* <<v>>.                                                                  *)
(***************************************************************************)
VARIABLES
    files,     \* the dataset files: path -> lines
    npy_fm,    \* feature_mapping/feat_mapper.npy
    npy_df,    \* feature_mapping/defaults.npy
    cache,     \* the LMDB directories: cache path -> store
    pc,        \* where the process constructing a CriteoDataset is
    self,      \* that CriteoDataset and the locals of its __build_cache
    reader,    \* a CriteoDataset of a second process that opened a cache
    got,       \* what the last __getitem__ returned
    runs       \* constructor calls so far

vars == <<files, npy_fm, npy_df, cache, pc, self, reader, got, runs>>

NoSelf ==
    [is_test |-> FALSE, path |-> <<>>, min_threshold |-> 0, passed |-> FALSE,
     buffer_size |-> 0, feat_mapper |-> <<>>, defaults |-> <<>>,
     b_feat_mapper |-> <<>>, b_defaults |-> <<>>, pos |-> 0, item_idx |-> 0,
     built |-> FALSE, length |-> 0, field_dims |-> <<>>]

NoReader == [pc |-> "idle", is_test |-> FALSE, length |-> 0, field_dims |-> <<>>,
             detached |-> <<>>]

NoGot == <<>>

Init ==
    /\ files \in FileSystems
    /\ npy_fm = <<>>
    /\ npy_df = <<>>
    /\ cache = [cp \in CachePaths |-> <<>>]
    /\ pc = "idle"
    /\ self = NoSelf
    /\ reader = NoReader
    /\ got = NoGot
    /\ runs = 0

(***************************************************************************)
(* CriteoDataset.__init__ up to the first thing it leaves behind: the      *)
(* branch on is_test, the test for the cache directory and rmtree; on the  *)
(* branch that builds nothing, __load_feat_mapper.  `saved` says that the  *)
(* caller passes the vocabulary it loaded from feature_mapping/, as        *)
(* get_criteo_dataloader_test does; otherwise feat_mapper and defaults are *)
(* None.                                                                   *)
(***************************************************************************)
\* shutil.rmtree(cache_path, ignore_errors=True)
RmTree(cp) == [cache EXCEPT ![cp] = <<>>]

\* a reader that has the removed directory open keeps its unlinked data file
Detach(cp) ==
    IF reader.pc = "opened" /\ CachePath(reader.is_test) = cp /\ reader.detached = <<>>
    THEN [reader EXCEPT !.detached = cache[cp]]
    ELSE reader

Construct(is_test, dataset_path, rebuild_cache, min_threshold, saved) ==
    LET cp == CachePath(is_test)
        need == rebuild_cache \/ cache[cp] = <<>>
    IN  /\ pc = "idle"
        /\ runs < MaxRuns
        /\ saved => (is_test /\ npy_fm # <<>> /\ npy_df # <<>>)
        /\ runs' = runs + 1
        /\ got' = NoGot
        /\ UNCHANGED <<files, npy_fm, npy_df>>
        /\ IF need
           THEN /\ cache' = RmTree(cp)
                /\ reader' = Detach(cp)
                /\ IF is_test /\ dataset_path = <<>>
                   THEN \* raise ValueError
                        /\ pc' = "idle"
                        /\ self' = NoSelf
                   ELSE /\ pc' = IF is_test THEN "build_cache" ELSE "get_feat_mapper"
                        /\ self' = [NoSelf EXCEPT
                              !.is_test = is_test,
                              !.path = IF is_test THEN dataset_path ELSE <<HardCodedPath>>,
                              !.min_threshold = min_threshold,
                              !.passed = saved,
                              !.b_feat_mapper = IF saved THEN npy_fm ELSE <<>>,
                              !.b_defaults = IF saved THEN npy_df ELSE <<>>]
           ELSE /\ UNCHANGED <<cache, reader>>
                /\ IF is_test
                   THEN /\ pc' = "open"
                        /\ self' = [NoSelf EXCEPT !.is_test = TRUE,
                                                  !.min_threshold = min_threshold]
                   ELSE IF npy_fm = <<>> \/ npy_df = <<>>
                   THEN \* __load_feat_mapper: open raises FileNotFoundError
                        /\ pc' = "idle"
                        /\ self' = NoSelf
                   ELSE /\ pc' = "open"
                        /\ self' = [NoSelf EXCEPT !.min_threshold = min_threshold,
                                                  !.feat_mapper = npy_fm,
                                                  !.defaults = npy_df]

\* self.feat_mapper, self.defaults = self.__get_feat_mapper(dataset_path)
GetFeatMapper(seed) ==
    /\ pc = "get_feat_mapper"
    /\ LET m == get_feat_mapper(files[self.path[1]], self.min_threshold, seed)
       IN  self' = [self EXCEPT !.feat_mapper = <<m.feat_mapper>>,
                                !.defaults = <<m.defaults>>]
    /\ pc' = "save_feat_mapper"
    /\ got' = NoGot
    /\ UNCHANGED <<files, npy_fm, npy_df, cache, reader, runs>>

\* __save_feat_mapper: np.save(feat_mapper.npy)
save_feat_mapper ==
    /\ pc = "save_feat_mapper"
    /\ npy_fm' = self.feat_mapper
    /\ pc' = "save_defaults"
    /\ got' = NoGot
    /\ UNCHANGED <<files, npy_df, cache, self, reader, runs>>

\* __save_feat_mapper: np.save(defaults.npy)
save_defaults ==
    /\ pc = "save_defaults"
    /\ npy_df' = self.defaults
    /\ pc' = "build_cache"
    /\ got' = NoGot
    /\ UNCHANGED <<files, npy_fm, cache, self, reader, runs>>

\* the hash seed of the process is the one its first __get_feat_mapper ran
\* under (a test build that is passed a vocabulary enumerates no set)
SameProcess(seed) ==
    IF self.feat_mapper # <<>>
    THEN get_feat_mapper(files[self.path[1]], self.min_threshold, seed).feat_mapper
            = self.feat_mapper[1]
    ELSE ~self.passed \/ seed = 0

\* the vocabulary counted again whatever was passed
BuildVocabularyRecounted(feat_mapper, defaults, file, min_threshold, seed) ==
    get_feat_mapper(file, min_threshold, seed)

\* feat_mapper, defaults = self.__get_feat_mapper(temp_path)
\*     if feat_mapper is None else (feat_mapper, defaults)
BuildVocabulary(feat_mapper, defaults, file, min_threshold, seed) ==
    IF feat_mapper = <<>>
    THEN get_feat_mapper(file, min_threshold, seed)
    ELSE [feat_mapper |-> feat_mapper[1], defaults |-> defaults[1]]

\* __build_cache up to lmdb.open: the vocabulary is the one passed in, or is
\* counted from temp_path; lmdb.open creates the directory and an empty store
build_cache(seed) ==
    /\ pc = "build_cache"
    /\ SameProcess(seed)
    /\ LET cp == CachePath(self.is_test)
           m == BuildVocabulary(self.b_feat_mapper, self.b_defaults,
                                files[TempPath(self.is_test)], self.min_threshold, seed)
       IN  /\ self' = [self EXCEPT !.b_feat_mapper = <<m.feat_mapper>>,
                                   !.b_defaults = <<m.defaults>>]
           /\ cache' = [cache EXCEPT ![cp] = IF @ = <<>> THEN <<EmptyStore>> ELSE @]
    /\ pc' = "put_field_dims"
    /\ got' = NoGot
    /\ UNCHANGED <<files, npy_fm, npy_df, reader, runs>>

\* the first write transaction: txn.put(b'field_dims', field_dims.tobytes())
PutFieldDims ==
    /\ pc = "put_field_dims"
    /\ LET cp == CachePath(self.is_test)
       IN  cache' = [cache EXCEPT ![cp] =
                        <<Put(@[1], FieldDimsKey, ToBytes(FieldDims(self.b_feat_mapper[1])))>>]
    /\ pc' = "write"
    /\ got' = NoGot
    /\ UNCHANGED <<files, npy_fm, npy_df, self, reader, runs>>

\* one turn of `for buffer in self.__yield_buffer(...)`: the generator runs to
\* its next yield (it reads the hard-coded path) and the buffer is written in
\* one write transaction; an exception of the encoder ends the constructor
WriteBuffer(buffer_size) ==
    /\ pc = "write"
    /\ self.buffer_size \in {0, buffer_size}
    /\ LET cp == CachePath(self.is_test)
           r == yield_buffer(AfterHeader(files[HardCodedPath]), self.pos, self.item_idx,
                           <<>>, buffer_size,
                           self.b_feat_mapper[1], self.b_defaults[1])
       IN  IF r.raised
           THEN /\ pc' = "idle"
                /\ self' = NoSelf
                /\ UNCHANGED cache
           ELSE /\ cache' = [cache EXCEPT ![cp] = <<PutAll(@[1], r.buffer)>>]
                /\ self' = [self EXCEPT !.pos = r.pos, !.item_idx = r.item_idx,
                                        !.buffer_size = buffer_size,
                                        !.built = r.exhausted]
                /\ pc' = IF r.exhausted THEN "open" ELSE "write"
    /\ got' = NoGot
    /\ UNCHANGED <<files, npy_fm, npy_df, reader, runs>>

\* lmdb.open(cache_path, create=False, readonly=True) and the read transaction
\* of __init__: self.length and self.field_dims; np.frombuffer(None) raises
\* when the store has no field_dims entry
Open ==
    /\ pc = "open"
    /\ LET store == cache[CachePath(self.is_test)][1]
       IN  IF FieldDimsKey \notin DOMAIN store
           THEN /\ pc' = "idle"
                /\ self' = NoSelf
           ELSE /\ pc' = "opened"
                /\ self' = [self EXCEPT !.length = Length(store),
                                        !.field_dims = <<FromBuffer(store[FieldDimsKey])>>,
                                        !.buffer_size = 0, !.pos = 0, !.item_idx = 0]
    /\ got' = NoGot
    /\ UNCHANGED <<files, npy_fm, npy_df, cache, reader, runs>>

\* the dataset is dropped and its process ends
Release ==
    /\ pc = "opened"
    /\ pc' = "idle"
    /\ self' = NoSelf
    /\ got' = NoGot
    /\ UNCHANGED <<files, npy_fm, npy_df, cache, reader, runs>>

\* the process is terminated inside the constructor; what it wrote stays
Terminate ==
    /\ pc \notin {"idle", "opened"}
    /\ pc' = "idle"
    /\ self' = NoSelf
    /\ got' = NoGot
    /\ UNCHANGED <<files, npy_fm, npy_df, cache, reader, runs>>

\* a second process constructs CriteoDataset with rebuild_cache=False while the
\* cache directory exists: it builds nothing and opens the store as it is
ReaderOpen(is_test) ==
    /\ reader.pc = "idle"
    /\ runs < MaxRuns
    /\ cache[CachePath(is_test)] # <<>>
    /\ is_test \/ (npy_fm # <<>> /\ npy_df # <<>>)
    /\ LET store == cache[CachePath(is_test)][1]
       IN  /\ FieldDimsKey \in DOMAIN store
           /\ reader' = [pc |-> "opened", is_test |-> is_test,
                         length |-> Length(store),
                         field_dims |-> <<FromBuffer(store[FieldDimsKey])>>,
                         detached |-> <<>>]
    /\ runs' = runs + 1
    /\ got' = NoGot
    /\ UNCHANGED <<files, npy_fm, npy_df, cache, pc, self>>

ReaderClose ==
    /\ reader.pc = "opened"
    /\ reader' = NoReader
    /\ got' = NoGot
    /\ UNCHANGED <<files, npy_fm, npy_df, cache, pc, self, runs>>

\* the store a dataset's env reads
StoreOf(who) ==
    IF who = "reader"
    THEN (IF reader.detached # <<>> THEN reader.detached[1]
          ELSE cache[CachePath(reader.is_test)][1])
    ELSE cache[CachePath(self.is_test)][1]

LengthOf(who) == IF who = "reader" THEN reader.length ELSE self.length

IsOpen(who) == IF who = "reader" THEN reader.pc = "opened" ELSE pc = "opened"

\* dataset[index]
getitem(who, index) ==
    /\ IsOpen(who)
    /\ got' = <<[who |-> who, index |-> index,
                 raised |-> GetItemRaises(StoreOf(who), index),
                 item |-> IF GetItemRaises(StoreOf(who), index) THEN <<>>
                          ELSE GetItem(StoreOf(who), index)]>>
    /\ UNCHANGED <<files, npy_fm, npy_df, cache, pc, self, reader, runs>>

Next ==
    \/ \E is_test \in BOOLEAN, dataset_path \in {<<>>} \cup {<<p>> : p \in DataPaths},
          rebuild_cache \in BOOLEAN, min_threshold \in 1..MaxThreshold,
          saved \in BOOLEAN :
            Construct(is_test, dataset_path, rebuild_cache, min_threshold, saved)
    \/ \E seed \in Seeds : GetFeatMapper(seed)
    \/ save_feat_mapper
    \/ save_defaults
    \/ \E seed \in Seeds : build_cache(seed)
    \/ PutFieldDims
    \/ \E buffer_size \in 1..MaxBufferSize : WriteBuffer(buffer_size)
    \/ Open
    \/ Release
    \/ Terminate
    \/ \E is_test \in BOOLEAN : ReaderOpen(is_test)
    \/ ReaderClose
    \/ \E who \in {"self", "reader"}, index \in Indices : getitem(who, index)

Spec == Init /\ [][Next]_vars

(***************************************************************************)
(* What the claims speak of.                                               *)
(***************************************************************************)
\* a data line with exactly NUM_FEATS + 1 comma-separated fields
IsDataRecord(line) == Cardinality({k \in 1..Len(line) : line[k] = ","}) = NUM_FEATS

\* the well-formed data lines of a file, in input order, the header not counted
DataRecords(file) == SelectSeq(SubSeq(file, 2, Len(file)), IsDataRecord)

\* the file the encoding pass of a build streams
Streamed == files[HardCodedPath]

\* the store of the cache the constructing process works on
BuiltStore == cache[CachePath(self.is_test)][1]

\* number of record entries of a store
RecordCount(store) == Cardinality(DOMAIN store \ {FieldDimsKey})

\* the row stored under index j
StoredRow(store, j) == FromBuffer(store[Pack(j)])

\* the encoded record of a line under vocabulary V and defaults D
ExpectedRow(line, V, D) ==
    LET f == Values(line)
    IN  [k \in 1..(NUM_FEATS + 1) |->
            IF k = 1 THEN ParseNumber(f[1])
            ELSE IF Token(k - 1, f) \in DOMAIN V[k - 1]
                 THEN V[k - 1][Token(k - 1, f)] ELSE D[k - 1]]

\* the tokens of the well-formed lines of a file: element k, field i
TokenTable(file) ==
    LET recs == DataRecords(file)
    IN  [k \in 1..Len(recs) |->
            LET f == Values(recs[k]) IN [i \in 1..NUM_FEATS |-> Token(i, f)]]

\* occurrences of token t in field i of a token table
TokenCount(table, i, t) == Cardinality({k \in 1..Len(table) : table[k][i] = t})

\* the tokens field i takes in a token table
FieldTokens(table, i) == {table[k][i] : k \in 1..Len(table)}

\* the tokens of field i that occur at least min_threshold times
KeptTokens(table, i, min_threshold) ==
    {t \in FieldTokens(table, i) : TokenCount(table, i, t) >= min_threshold}

\* the constructor built the cache it has opened
BuiltAndOpened == pc = "opened" /\ self.built

\* C1: after a build completes and the cache is opened, the length (entry
\* count minus 1) equals the number of well-formed data lines of the file the
\* build streamed, the header and the malformed lines not counted.
C1_LengthIsWellFormedCount ==
    BuiltAndOpened => self.length = Len(DataRecords(Streamed))

\* a build of a file that mixes two well-formed lines with a malformed one
C1_Witness ==
    /\ BuiltAndOpened
    /\ self.length = 2
    /\ Len(Streamed) = 4

\* C2: on a built cache, get(i) for 0 <= i < length returns the encoded
\* record of the i-th well-formed line of the streamed file: the label is the
\* parsed first field, slot k the vocabulary code of the token or the default.
C2_RoundTrip ==
    (got # <<>> /\ got[1].who = "self" /\ self.built
        /\ got[1].index >= 0 /\ got[1].index < self.length) =>
      LET row == ExpectedRow(DataRecords(Streamed)[got[1].index + 1],
                             self.b_feat_mapper[1], self.b_defaults[1])
      IN  /\ ~got[1].raised
          /\ got[1].item = <<[k \in 1..NUM_FEATS |-> row[k + 1]], row[1]>>

\* get(1) where a malformed line precedes the second well-formed line
C2_Witness ==
    /\ got # <<>> /\ got[1].who = "self" /\ self.built
    /\ got[1].index = 1 /\ self.length = 2
    /\ ~IsDataRecord(Streamed[3])
    /\ got[1].item[2] = 0

\* C3: for every field index i in 0..NUM_FEATS-1 the stored field_dims[i] is
\* the vocabulary size of field i + 1 plus one, for any corpus (a field the
\* vocabulary has no tokens for has size 0).
C3_FieldDimsIsSizePlusOne ==
    BuiltAndOpened =>
      \A i \in 0..(NUM_FEATS - 1) :
        self.field_dims[1][i + 1] =
            (IF i + 1 \in DOMAIN self.b_feat_mapper[1]
             THEN Cardinality(DOMAIN self.b_feat_mapper[1][i + 1]) ELSE 0) + 1

\* C4: in a build that counts its vocabulary, a token whose count over the
\* counted corpus is below min_threshold is stored as the field's default
\* code, which is the number of kept tokens and no kept token's code; the
\* kept tokens (count >= min_threshold) have codes covering exactly 0..size-1.
C4_RareTokensGetDefault ==
    (pc = "open" /\ self.built /\ ~self.passed) =>
      LET counted == TokenTable(files[TempPath(self.is_test)])
          src == TokenTable(Streamed)
          V == self.b_feat_mapper[1]
          D == self.b_defaults[1]
      IN  /\ \A i \in DOMAIN V :
                LET kept == KeptTokens(counted, i, self.min_threshold)
                IN  /\ DOMAIN V[i] = kept
                    /\ {V[i][t] : t \in kept} = 0..(Cardinality(kept) - 1)
                    /\ D[i] = Cardinality(kept)
          /\ \A j \in 0..(Len(src) - 1), i \in 1..NUM_FEATS :
                TokenCount(counted, i, src[j + 1][i]) < self.min_threshold =>
                    /\ StoredRow(BuiltStore, j)[i + 1]
                          = Cardinality(KeptTokens(counted, i, self.min_threshold))
                    /\ StoredRow(BuiltStore, j)[i + 1] \notin {V[i][t] : t \in DOMAIN V[i]}

\* a stored record with a rare token in a field that also has a kept token
C4_Witness ==
    /\ pc = "open" /\ self.built /\ ~self.passed /\ ~self.is_test
    /\ \E i \in 1..NUM_FEATS, j \in 0..(self.item_idx - 1) :
          /\ TokenCount(TokenTable(Streamed), i, TokenTable(Streamed)[j + 1][i])
                < self.min_threshold
          /\ self.b_defaults[1][i] >= 1
          /\ StoredRow(BuiltStore, j)[i + 1] = self.b_defaults[1][i]

\* C5: a build that is passed the saved vocabulary does not recompute it, and
\* stores every token that has a code in that vocabulary with that code,
\* however rare the token is in the corpus.
C5_SavedVocabularyReused ==
    (pc = "open" /\ self.built /\ self.is_test /\ self.passed) =>
      LET src == TokenTable(Streamed)
      IN  /\ self.b_feat_mapper = npy_fm
          /\ self.b_defaults = npy_df
          /\ \A j \in 0..(Len(src) - 1), i \in DOMAIN npy_fm[1] :
                src[j + 1][i] \in DOMAIN npy_fm[1][i] =>
                    StoredRow(BuiltStore, j)[i + 1] = npy_fm[1][i][src[j + 1][i]]

\* a test build stores a token with its saved code although the token occurs
\* less than min_threshold times in the streamed file and in the named file
C5_Witness ==
    /\ pc = "open" /\ self.built /\ self.is_test /\ self.passed
    /\ self.item_idx >= 1
    /\ \E i \in DOMAIN npy_fm[1], j \in 0..(self.item_idx - 1) :
          LET t == TokenTable(Streamed)[j + 1][i]
          IN  /\ t \in DOMAIN npy_fm[1][i]
              /\ TokenCount(TokenTable(Streamed), i, t) < self.min_threshold
              /\ TokenCount(TokenTable(files[self.path[1]]), i, t) < self.min_threshold
              /\ StoredRow(BuiltStore, j)[i + 1] = npy_fm[1][i][t]

\* C6: on an opened cache, get(index) with index = length, index > length or
\* a negative index raises and returns no data.
C6_OutOfRangeRaises ==
    (got # <<>> /\ (got[1].index < 0 \/ got[1].index >= LengthOf(got[1].who))) =>
      got[1].raised

\* C7: a reader never sees a store that holds the metadata entry together
\* with only a proper prefix of the records of the source.
C7_NoPartialStore ==
    reader.pc = "opened" =>
      ~(/\ FieldDimsKey \in DOMAIN StoreOf("reader")
        /\ RecordCount(StoreOf("reader")) < Len(DataRecords(Streamed)))

\* C8: while a build runs, the field_dims entry is in the store only when all
\* records of the source have been committed.
C8_FieldDimsAfterRecords ==
    (pc \in {"put_field_dims", "write", "open"} /\ self.b_feat_mapper # <<>>
        /\ FieldDimsKey \in DOMAIN BuiltStore) =>
      RecordCount(BuiltStore) = Len(DataRecords(Streamed))

RECURSIVE OneByOne(_, _, _, _, _)
\* the store after writing the encoded record of each line singly
OneByOne(store, recs, j, V, D) ==
    IF j >= Len(recs) THEN store
    ELSE OneByOne(Put(store, Pack(j), ToBytes(ExpectedRow(recs[j + 1], V, D))),
                  recs, j + 1, V, D)

\* C9: after the batched build, for any buffer_size, the store holds exactly
\* the entries that writing each encoded record one by one produces.
C9_BatchingKeepsContent ==
    (pc = "open" /\ self.built) =>
      BuiltStore =
        OneByOne(Put(EmptyStore, FieldDimsKey, ToBytes(FieldDims(self.b_feat_mapper[1]))),
                 DataRecords(Streamed), 0, self.b_feat_mapper[1], self.b_defaults[1])

\* three records written with buffer_size 2: a full batch and the final flush
C9_Witness ==
    /\ pc = "open" /\ self.built
    /\ self.buffer_size = 2 /\ self.item_idx = 3

\* C10: the records a build stores are the encoded well-formed lines of the
\* file the caller named as dataset_path.
C10_CallerPathIsRead ==
    (pc = "open" /\ self.built /\ self.is_test) =>
      BuiltStore =
        OneByOne(Put(EmptyStore, FieldDimsKey, ToBytes(FieldDims(self.b_feat_mapper[1]))),
                 DataRecords(files[self.path[1]]), 0,
                 self.b_feat_mapper[1], self.b_defaults[1])

====
